---- MODULE Spec2Model ----
(***************************************************************************)
(* Deathnode: the Watcher (RemoveUndesiredInstances) and the Notebook      *)
(* (DestroyInstancesAttempt) over one autoscaling group, with the cloud,   *)
(* Mesos and Aurora as the environment.                                    *)
(***************************************************************************)
EXTENDS Integers, Sequences, FiniteSets, TLC

VARIABLES
  conf,                 \* context.ApplicationConf (fixed after start-up)
  faulty,               \* the external operations that may return an error in this run
  pace,                 \* by how much the clock may advance before an attempt in this run
  cloud,                \* what the cloud holds: members, death marks, lifecycle, protection
  asg,                  \* AutoscalingGroupMonitor snapshot
  mesos,                \* MesosMonitor snapshot: the protected agent IPs
  aurora,               \* AuroraMonitor cache: draining / drained hosts
  clock,                \* the injected clock, in seconds
  lastDeleteTimestamp,  \* Notebook.lastDeleteTimestamp
  pc,                   \* position in the tick
  queue,                \* instances of the running Notebook pass not yet attempted
  calls,                \* external calls issued in the current tick, in order
  watch,                \* what RemoveUndesiredInstances did in the current tick
  pass,                 \* the running (or latest) Notebook pass
  attempt,              \* outcome of the latest per-instance attempt
  completions,          \* successful CompleteLifecycleAction calls since start-up
  client                \* the latest operation of the Mesos and Aurora clients and its outcome

vars == <<conf, faulty, pace, cloud, asg, mesos, aurora, clock, lastDeleteTimestamp, pc, queue,
          calls, watch, pass, attempt, completions, client>>

----------------------------------------------------------------------------
(* Bounds *)

MaxClock == 3

(* the configured rate limit when it is enabled *)
Delay == 1

(* the configured lifecycle-hook timeout, in seconds *)
HookTimeout == 2

(* the largest desired count of the autoscaling group *)
MaxDesired == 2

(* the longest the clock advances between two steps, in seconds *)
MaxStep == 1

(* time.Time{}, the start-up value of lastDeleteTimestamp, lies before every *)
(* clock reading; Clock.Since of it is the longest duration                  *)
ZeroTime == -1

SinceZeroTime == 1000000

(* monitor.LifeCycleRefreshTimeoutPercentage, in tenths *)
LifeCycleRefreshTimeoutTenths == 7

----------------------------------------------------------------------------
(* Instances *)

Instances == <<"i-A", "i-B", "i-C">>

InstanceIds == {Instances[k] : k \in 1..Len(Instances)}

IP(i) == <<"ip", i>>

DNS(i) == <<"dns", i>>

IPs == {IP(i) : i \in InstanceIds}

NoVictim == "none"

LifecycleStatePending == "PENDING"
LifecycleStateInService == "INSERVICE"
LifecycleStateTerminatingWait == "TERMINATING_WAIT"
LifecycleStateTerminated == "TERMINATED"

Max(a, b) == IF a >= b THEN a ELSE b

Range(s) == {s[k] : k \in 1..Len(s)}

(* the listed instances of a set, in listing order *)
InOrder(S) == SelectSeq(Instances, LAMBDA i : i \in S)

----------------------------------------------------------------------------
(* Monitors *)

(* AutoscalingGroupMonitor.Refresh: the snapshot replaces the previous one *)
Snapshot(c) ==
  [members   |-> InOrder(c.members),
   desired   |-> c.desired,
   marked    |-> c.marked,
   markTime  |-> c.markTime,
   lifecycle |-> c.lifecycle,
   protected |-> c.protected]

GetInstances(a) == a.members

GetInstancesNotMarkedToBeRemoved(a) ==
  SelectSeq(a.members, LAMBDA i : i \notin a.marked)

NumUndesiredInstances(a) == Max(0, Len(a.members) - a.desired)

(* AutoscalingServiceMonitor.GetInstanceByID: found iff a monitored ASG lists it *)
GetInstanceByID(a, i) == i \in Range(a.members)

(* MesosMonitor.IsProtected over the snapshot of protected agent IPs *)
IsProtected(m, ip) == ip \in m

(* AuroraMonitor.IsDraining / IsDrained over the cache *)
IsDraining(c, ip) == ip \in c.draining

IsDrained(c, ip) == ip \in c.drained

(* the OR form: a host is left out only if it is both DRAINING and DRAINED *)
DrainHostsForwarded_OrForm(c, hosts) ==
  {h \in hosts : ~IsDrained(c, h[2]) \/ ~IsDraining(c, h[2])}

(* AuroraMonitor.DrainHosts: the hosts forwarded to the Aurora client *)
DrainHostsForwarded(c, hosts) ==
  {h \in hosts : ~IsDrained(c, h[2]) /\ ~IsDraining(c, h[2])}

----------------------------------------------------------------------------
(* Selector *)

noConstraint(S, m) == S

protectedConstraint(S, m) == SelectSeq(S, LAMBDA i : ~IsProtected(m, IP(i)))

filter(ctype, S, m) ==
  IF ctype = "protectedConstraint" THEN protectedConstraint(S, m) ELSE noConstraint(S, m)

(* firstAvailableInstance *)
find(S) == IF S = <<>> THEN NoVictim ELSE Head(S)

----------------------------------------------------------------------------
(* Watcher *)

(* a loop that runs once too often *)
ShouldMarkMore_Inclusive(removedInstances, numUndesiredInstances) ==
  removedInstances <= numUndesiredInstances

(* the loop condition of RemoveUndesiredInstances *)
ShouldMarkMore(removedInstances, numUndesiredInstances) ==
  removedInstances < numUndesiredInstances

(* candidates taken from GetInstances: marked instances stay candidates *)
AllowedInstancesToKill_AllInstances(a, m, ctype) == filter(ctype, a.members, m)

(* candidates handed to the recommender without the constraint *)
AllowedInstancesToKill_Unfiltered(a, m, ctype) ==
  SelectSeq(a.members, LAMBDA i : i \notin a.marked)

(* y.constraints.filter(autoscalingMonitor.GetInstancesNotMarkedToBeRemoved()) *)
AllowedInstancesToKill(a, m, ctype) ==
  filter(ctype, GetInstancesNotMarkedToBeRemoved(a), m)

(* InstanceMonitor.MarkToBeRemoved on success: the in-memory record is marked *)
MarkToBeRemoved(marked, i) == marked \cup {i}

(* a loop that goes on to the next iteration after a marking error *)
RECURSIVE MarkLoop_ContinueOnError(_, _, _, _, _)
MarkLoop_ContinueOnError(a, m, ctype, failAt, st) ==
  IF ~ShouldMarkMore(st.removedInstances, st.numUndesired) THEN st
  ELSE
    LET allowed == AllowedInstancesToKill([a EXCEPT !.marked = st.marked], m, ctype)
        best    == find(allowed)
    IN  IF best = NoVictim
          THEN [st EXCEPT !.crashed = TRUE]
        ELSE IF Len(st.newly) + 1 = failAt
          THEN MarkLoop_ContinueOnError(a, m, ctype, 0, [st EXCEPT !.failed = best])
        ELSE MarkLoop_ContinueOnError(a, m, ctype, failAt,
                      [st EXCEPT !.marked = MarkToBeRemoved(@, best),
                                 !.newly = Append(@, best),
                                 !.removedInstances = @ + 1])

(* The loop of RemoveUndesiredInstances.  st.marked is the monitor's marked  *)
(* set as the loop updates it, st.newly the instances marked by this call in *)
(* order, st.failed the instance whose MarkToBeRemoved returned an error,    *)
(* st.crashed whether the call ended in a nil dereference.  failAt is the    *)
(* iteration whose MarkToBeRemoved fails (0: none).                          *)
RECURSIVE MarkLoop(_, _, _, _, _)
MarkLoop(a, m, ctype, failAt, st) ==
  IF ~ShouldMarkMore(st.removedInstances, st.numUndesired) THEN st
  ELSE
    LET allowed == AllowedInstancesToKill([a EXCEPT !.marked = st.marked], m, ctype)
        best    == find(allowed)
    IN  IF best = NoVictim
          THEN [st EXCEPT !.crashed = TRUE]
        ELSE IF Len(st.newly) + 1 = failAt
          THEN [st EXCEPT !.failed = best]
        ELSE MarkLoop(a, m, ctype, failAt,
                      [st EXCEPT !.marked = MarkToBeRemoved(@, best),
                                 !.newly = Append(@, best),
                                 !.removedInstances = @ + 1])

(* a tag write that replaces the marks instead of adding to them *)
MarkedAfter_Overwrite(marked, newly) == IF newly = <<>> THEN marked ELSE Range(newly)

(* the death-marked instances of the cloud after the loop: the only tag      *)
(* operation of RemoveUndesiredInstances is MarkToBeRemoved, which adds a mark *)
MarkedAfter(marked, newly) == marked \cup Range(newly)

WatchStart(a) ==
  [numUndesired     |-> NumUndesiredInstances(a),
   before           |-> a.marked,
   candidates       |-> <<>>,
   marked           |-> a.marked,
   newly            |-> <<>>,
   removedInstances |-> 0,
   failed           |-> NoVictim,
   crashed          |-> FALSE,
   ran              |-> FALSE]

StampMarks(markTime, newly, now) ==
  [i \in InstanceIds |-> IF i \in Range(newly) THEN now ELSE markTime[i]]

(* DeathNodeWatcher.RemoveUndesiredInstances on the monitored ASG *)
RemoveUndesiredInstances ==
  /\ pc = "watch"
  /\ \E failAt \in IF "SetInstanceTag" \in faulty THEN 0..NumUndesiredInstances(asg) ELSE {0} :
       LET r == MarkLoop(asg, mesos, conf.ConstraintsType, failAt, WatchStart(asg))
       IN  /\ watch' = [r EXCEPT !.ran = TRUE,
                                 !.candidates = AllowedInstancesToKill(asg, mesos, conf.ConstraintsType)]
           /\ asg' = [asg EXCEPT !.marked = r.marked,
                                 !.markTime = StampMarks(@, r.newly, clock)]
           /\ cloud' = [cloud EXCEPT !.marked = MarkedAfter(@, r.newly),
                                     !.markTime = StampMarks(@, r.newly, clock)]
           /\ pc' = IF r.crashed THEN "crashed" ELSE "notebook"
  /\ UNCHANGED <<conf, faulty, pace, mesos, aurora, clock, lastDeleteTimestamp, queue, calls,
                 pass, attempt, completions, client>>

----------------------------------------------------------------------------
(* Notebook *)

Call(op, i, hosts, ok) == [op |-> op, id |-> i, hosts |-> hosts, ok |-> ok]

(* Clock.Since(t).Seconds() read at clock time now *)
Since(now, t) == IF t = ZeroTime THEN SinceZeroTime ELSE now - t

(* a rate limit with the comparison turned around *)
shouldWaitForNextDestroy_Reversed(sinceLastDelete, delayDeleteSeconds) ==
  sinceLastDelete >= delayDeleteSeconds

(* a rate limit that lets an attempt through once the delay has just elapsed *)
shouldWaitForNextDestroy_Strict(sinceLastDelete, delayDeleteSeconds) ==
  sinceLastDelete < delayDeleteSeconds

(* Notebook.shouldWaitForNextDestroy *)
shouldWaitForNextDestroy(sinceLastDelete, delayDeleteSeconds) ==
  sinceLastDelete <= delayDeleteSeconds

(* a heartbeat that does not look at the lifecycle state *)
resetLifecycleDue_AnyState(state, sinceMark, lifecycleTimeout) ==
  sinceMark * 10 > lifecycleTimeout * LifeCycleRefreshTimeoutTenths

(* the condition of Notebook.resetLifecycle *)
resetLifecycleDue(state, sinceMark, lifecycleTimeout) ==
  /\ state = LifecycleStateTerminatingWait
  /\ sinceMark * 10 > lifecycleTimeout * LifeCycleRefreshTimeoutTenths

(* a kill check that lets every instance through *)
CanBeKilled_Always(m, ip) == TRUE

(* destroyInstanceAttempt: "if the instance can be killed" *)
CanBeKilled(m, ip) == ~IsProtected(m, ip)

(* a lifecycle check that accepts every state *)
CanCompleteLifecycle_AnyState(state) == TRUE

(* destroyInstance: the lifecycle state that lets the action be completed *)
CanCompleteLifecycle(state) == state = LifecycleStateTerminatingWait

(* a destroyInstance that records the completion time without a rate limit *)
RecordsDelete_Always(delayDeleteSeconds) == TRUE

(* a destroyInstance that never records the completion time *)
RecordsDelete_Never(delayDeleteSeconds) == FALSE

(* destroyInstance: whether lastDeleteTimestamp is set after a success *)
RecordsDelete(delayDeleteSeconds) == delayDeleteSeconds # 0

(* a destroyInstance that ends the maintenance at once instead of deferring it *)
destroyInstanceCalls_EndFirst(i, completeOk) ==
  <<Call("EndMaintenance", i, {<<IP(i), IP(i)>>}, TRUE),
    Call("CompleteLifecycleAction", i, {}, completeOk)>>

(* a destroyInstance that ends the maintenance only after a successful        *)
(* completion *)
destroyInstanceCalls_NoDefer(i, completeOk) ==
  IF completeOk
    THEN <<Call("CompleteLifecycleAction", i, {}, completeOk),
           Call("EndMaintenance", i, {<<IP(i), IP(i)>>}, TRUE)>>
    ELSE <<Call("CompleteLifecycleAction", i, {}, completeOk)>>

(* destroyInstance on an instance in TERMINATING_WAIT: CompleteLifecycleAction, *)
(* then the deferred endMaintenance with the host map {ip -> ip} on every      *)
(* return path; its result is dropped                                          *)
destroyInstanceCalls(i, completeOk) ==
  <<Call("CompleteLifecycleAction", i, {}, completeOk),
    Call("EndMaintenance", i, {<<IP(i), IP(i)>>}, TRUE)>>

(* a drain error that is dropped instead of returned *)
DrainError_Dropped(drains, drainOk) == FALSE

(* destroyInstanceAttempt: the error of drainAgent ends the attempt *)
DrainError(drains, drainOk) == drains /\ ~drainOk

(* AwsConn.DescribeInstancesByTag(DeathNodeMark) *)
DescribeInstancesByTag(c) == InOrder(c.marked)

(* a host map made anew for every instance: only the last one is handed over *)
MaintenanceHosts_LastOnly(instances) ==
  IF instances = <<>> THEN {}
  ELSE {<<DNS(instances[Len(instances)]), IP(instances[Len(instances)])>>}

(* Notebook.setAgentsInMaintenance: the host map handed to Mesos *)
MaintenanceHosts(instances) == {<<DNS(i), IP(i)>> : i \in Range(instances)}

(* a lookup error that is dropped instead of returned *)
LookupError_Dropped(found) == FALSE

(* destroyInstanceAttempt: the error of GetInstanceByID ends the attempt *)
LookupError(found) == ~found

(* an attempt that returns the error of a preparatory call *)
PreparationError_Returned(prepared) ==
  \E k \in 1..Len(prepared) : ~prepared[k].ok

(* destroyInstanceAttempt: the error removeInstanceProtection returns is not *)
(* read and resetLifecycle logs its error and returns nothing, so no result  *)
(* of the preparatory calls prepared ends the attempt                        *)
PreparationError(prepared) == FALSE

(* Notebook.destroyInstanceAttempt for instance i at clock time now, as a    *)
(* function of the state it reads and of the results in of the calls it      *)
(* makes: the calls in order, the error returned, the new lastDeleteTimestamp *)
destroyInstanceAttempt(i, a, m, au, cf, last, now, in) ==
  IF LookupError(GetInstanceByID(a, i))
    THEN [id |-> i, calls |-> <<>>, err |-> "lookup", found |-> FALSE,
          since |-> Since(now, last), waited |-> FALSE, issued |-> FALSE,
          completed |-> FALSE, before |-> last, last |-> last, at |-> now]
  ELSE
    LET unprotect == IF a.protected[i]
                       THEN <<Call("RemoveInstanceProtection", i, {}, in.rpOk)>>
                       ELSE <<>>
        heartbeat == IF cf.ResetLifecycle
                        /\ resetLifecycleDue(a.lifecycle[i], now - a.markTime[i],
                                             cf.LifecycleTimeout)
                       THEN <<Call("RecordLifecycleActionHeartbeat", i, {}, in.hbOk)>>
                       ELSE <<>>
        since     == Since(now, last)
        prepErr   == PreparationError(unprotect \o heartbeat)
        waited    == ~prepErr /\ shouldWaitForNextDestroy(since, cf.DelayDeleteSeconds)
        drains    == ~prepErr /\ ~waited /\ cf.AuroraURL
        drain     == IF drains
                       THEN <<Call("DrainHosts", i,
                                   DrainHostsForwarded(au, {<<DNS(i), IP(i)>>}),
                                   in.drainOk)>>
                       ELSE <<>>
        drainErr  == DrainError(drains, in.drainOk)
        issued    == /\ ~prepErr
                     /\ ~waited
                     /\ ~drainErr
                     /\ CanBeKilled(m, IP(i))
                     /\ CanCompleteLifecycle(a.lifecycle[i])
        destroy   == IF issued
                       THEN destroyInstanceCalls(i, in.completeOk)
                       ELSE <<>>
        completed == issued /\ in.completeOk
    IN  [id        |-> i,
         calls     |-> unprotect \o heartbeat \o drain \o destroy,
         err       |-> IF prepErr THEN "prepare"
                       ELSE IF drainErr THEN "drain"
                       ELSE IF issued /\ ~in.completeOk THEN "complete"
                       ELSE "none",
         found     |-> GetInstanceByID(a, i),
         since     |-> since,
         waited    |-> waited,
         issued    |-> issued,
         completed |-> completed,
         before    |-> last,
         last      |-> IF completed /\ RecordsDelete(cf.DelayDeleteSeconds)
                         THEN now ELSE last,
         at        |-> now]

NoAttempt ==
  [id |-> NoVictim, calls |-> <<>>, err |-> "none", found |-> FALSE, since |-> 0,
   waited |-> FALSE, issued |-> FALSE, completed |-> FALSE, before |-> ZeroTime,
   last |-> ZeroTime, at |-> 0]

NoPass == [ran |-> FALSE, err |-> FALSE, instances |-> <<>>, attempted |-> <<>>]

(* the results the calls of an attempt on i can have *)
Results(op) == IF op \in faulty THEN BOOLEAN ELSE {TRUE}

AttemptInputs ==
  [rpOk       : Results("RemoveInstanceProtection"),
   hbOk       : Results("RecordLifecycleActionHeartbeat"),
   drainOk    : Results("DrainHosts"),
   completeOk : Results("CompleteLifecycleAction")]

AllOk == [rpOk |-> TRUE, hbOk |-> TRUE, drainOk |-> TRUE, completeOk |-> TRUE]

(* in names a result only for the calls the attempt at clock time now makes *)
Relevant(i, now, in) ==
  LET r == destroyInstanceAttempt(i, asg, mesos, aurora, conf, lastDeleteTimestamp,
                                  now, [AllOk EXCEPT !.drainOk = in.drainOk])
      ops == {r.calls[k].op : k \in 1..Len(r.calls)}
  IN  /\ ("RemoveInstanceProtection" \notin ops => in.rpOk)
      /\ ("RecordLifecycleActionHeartbeat" \notin ops => in.hbOk)
      /\ ("DrainHosts" \notin ops => in.drainOk)
      /\ ("CompleteLifecycleAction" \notin ops => in.completeOk)

(* Notebook.DestroyInstancesAttempt up to the loop over the marked instances *)
DestroyInstancesAttempt ==
  /\ pc = "notebook"
  /\ \E describeOk \in Results("DescribeInstancesByTag"),
        maintenanceOk \in Results("SetMesosAgentsInMaintenance") :
       LET instances == IF describeOk THEN DescribeInstancesByTag(cloud) ELSE <<>>
       IN  /\ (instances = <<>>) => maintenanceOk
           /\ calls' = IF Len(instances) > 0
                         THEN Append(calls, Call("SetMesosAgentsInMaintenance", NoVictim,
                                                 MaintenanceHosts(instances), maintenanceOk))
                         ELSE calls
           /\ queue' = instances
           /\ pass' = [ran |-> TRUE, err |-> ~describeOk, instances |-> instances,
                       attempted |-> <<>>]
           /\ pc' = IF instances = <<>> THEN "idle" ELSE "attempt"
  /\ UNCHANGED <<conf, faulty, pace, cloud, asg, mesos, aurora, clock, lastDeleteTimestamp, watch,
                 attempt, completions, client>>

(* a loop that returns at the first attempt that fails *)
RemainingAfter_StopOnError(instances, err) ==
  IF err # "none" THEN <<>> ELSE Tail(instances)

(* the loop of DestroyInstancesAttempt after an attempt that returned err: the *)
(* error is logged and the loop goes on with the next instance                *)
RemainingAfter(instances, err) == Tail(instances)

(* one iteration of the loop of DestroyInstancesAttempt: destroyInstanceAttempt *)
(* on the next marked instance, started after the clock has advanced by step;  *)
(* its error, if any, is logged and dropped                                    *)
DestroyInstanceAttemptStep ==
  /\ pc = "attempt"
  /\ queue # <<>>
  /\ \E in \in AttemptInputs, step \in pace :
       LET i   == Head(queue)
           now == clock + step
           r   == destroyInstanceAttempt(i, asg, mesos, aurora, conf,
                                         lastDeleteTimestamp, now, in)
           unprotected == \E k \in 1..Len(r.calls) :
                            r.calls[k].op = "RemoveInstanceProtection" /\ r.calls[k].ok
       IN  /\ now <= MaxClock
           /\ Relevant(i, now, in)
           /\ attempt' = r
           /\ calls' = calls \o r.calls
           /\ lastDeleteTimestamp' = r.last
           /\ clock' = now
           /\ completions' = IF r.completed
                               THEN Append(completions, [id |-> i, t |-> now])
                               ELSE completions
           /\ cloud' = [cloud EXCEPT
                          !.protected[i] = IF unprotected THEN FALSE ELSE @,
                          !.lifecycle[i] = IF r.completed THEN LifecycleStateTerminated ELSE @]
           /\ pass' = [pass EXCEPT !.attempted = Append(@, i)]
           /\ queue' = RemainingAfter(queue, r.err)
           /\ pc' = IF RemainingAfter(queue, r.err) = <<>> THEN "idle" ELSE "attempt"
  /\ UNCHANGED <<conf, faulty, pace, asg, mesos, aurora, watch, client>>

----------------------------------------------------------------------------
(* Clients *)

(* no client operation has run *)
NoClient == [op |-> "none"]

(* the most tasks the Mesos master holds *)
MaxTasks == 201

(* "limit=100" of the task request and the page length that asks for more *)
PageLimit == 100

(* MaintenanceStart.Nanoseconds of the Mesos maintenance window *)
MaintenanceStartNanoseconds == 1

Hostnames == {DNS(i) : i \in InstanceIds}

(* the host maps map[string]string handed to the clients *)
HostMaps == UNION {[K -> IPs] : K \in SUBSET Hostnames}

(* the orders in which "for host := range hosts" may visit the keys of a map *)
RangeOrders(hosts) ==
  {o \in [1..Cardinality(DOMAIN hosts) -> DOMAIN hosts] :
     \A j, k \in 1..Cardinality(DOMAIN hosts) : j # k => o[j] # o[k]}

(* a Mesos payload whose machine IP is the host name *)
genMaintenanceCallPayloadMesos_HostAsIP(hosts, order) ==
  [windows |->
     <<[machine_ids    |-> [k \in 1..Len(order) |->
                              [hostname |-> order[k], ip |-> order[k]]],
        unavailability |-> [start |-> [nanoseconds |-> MaintenanceStartNanoseconds]]]>>]

(* genMaintenanceCallPayload of the Mesos client: the request that is marshalled *)
genMaintenanceCallPayloadMesos(hosts, order) ==
  [windows |->
     <<[machine_ids    |-> [k \in 1..Len(order) |->
                              [hostname |-> order[k], ip |-> hosts[order[k]]]],
        unavailability |-> [start |-> [nanoseconds |-> MaintenanceStartNanoseconds]]]>>]

(* an Aurora payload that lists the keys of the map *)
genMaintenanceCallPayloadAurora_Keys(hosts, order) ==
  [hosts |-> [hostNames |-> [k \in 1..Len(order) |-> order[k]]]]

(* genMaintenanceCallPayload of the Aurora client: the request that is marshalled *)
genMaintenanceCallPayloadAurora(hosts, order) ==
  [hosts |-> [hostNames |-> [k \in 1..Len(order) |-> hosts[order[k]]]]]

(* auroraPostAPICall(c.APIUrl + path, payload) *)
auroraPostAPICall(path, payload) == [method |-> "POST", path |-> path, payload |-> payload]

(* the request each operation of the Aurora client posts *)
StartMaintenanceRequest(hosts, order) ==
  auroraPostAPICall("/startMaintenance", genMaintenanceCallPayloadAurora(hosts, order))

EndMaintenanceRequest(hosts, order) ==
  auroraPostAPICall("/drainHosts", genMaintenanceCallPayloadAurora(hosts, order))

DrainHostsRequest(hosts, order) ==
  auroraPostAPICall("/drainHosts", genMaintenanceCallPayloadAurora(hosts, order))

(* the page the Mesos master returns for limit=100&offset=offset out of its  *)
(* tasks 1..n *)
TasksPage(n, offset) ==
  [k \in 1..(IF n - offset >= PageLimit THEN PageLimit
             ELSE IF n - offset > 0 THEN n - offset ELSE 0) |-> offset + k]

(* a page check that asks for more after every non-empty page *)
MorePages_NonEmpty(pageLength) == pageLength > 0

(* getMesosTasksRecursive: "if len(tasks.Tasks) == 100" *)
MorePages(pageLength) == pageLength = PageLimit

(* Client.getMesosTasksRecursive at offset over tasksResponse = acc; the     *)
(* request for page failAt fails (0: none).  The error of the recursive call *)
(* is not read.                                                              *)
RECURSIVE getMesosTasksRecursive(_, _, _, _, _)
getMesosTasksRecursive(acc, requests, offset, n, failAt) ==
  IF Len(requests) + 1 = failAt
    THEN [err |-> TRUE, tasks |-> acc, requests |-> Append(requests, offset)]
  ELSE
    LET page == TasksPage(n, offset)
    IN  IF MorePages(Len(page))
          THEN [getMesosTasksRecursive(acc \o page, Append(requests, offset),
                                       offset + PageLimit, n, failAt)
                  EXCEPT !.err = FALSE]
          ELSE [err |-> FALSE, tasks |-> acc \o page, requests |-> Append(requests, offset)]

(* Client.GetMesosTasks: (tasks, nil) or (nil, err) *)
GetMesosTasksResult(n, failAt) ==
  LET r == getMesosTasksRecursive(<<>>, <<>>, 0, n, failAt)
  IN  IF r.err THEN [r EXCEPT !.tasks = <<>>] ELSE r

(* the service runs: no operation has ended it *)
ClientAlive == ~(client.op = "AuroraMonitor.Refresh" /\ client.crashed)

(* Mesos client: the maintenance payload for a host map *)
SetMesosAgentsInMaintenance ==
  /\ ClientAlive
  /\ \E hosts \in HostMaps :
       \E order \in RangeOrders(hosts) :
         client' = [op |-> "SetMesosAgentsInMaintenance", hosts |-> hosts,
                    payload |-> genMaintenanceCallPayloadMesos(hosts, order)]
  /\ UNCHANGED <<conf, faulty, pace, cloud, asg, mesos, aurora, clock, lastDeleteTimestamp, pc,
                 queue, calls, watch, pass, attempt, completions>>

(* Aurora client: StartMaintenance, EndMaintenance and DrainHosts *)
StartMaintenance ==
  /\ ClientAlive
  /\ \E hosts \in HostMaps :
       \E order \in RangeOrders(hosts) :
         client' = [op |-> "StartMaintenance", hosts |-> hosts,
                    request |-> StartMaintenanceRequest(hosts, order)]
  /\ UNCHANGED <<conf, faulty, pace, cloud, asg, mesos, aurora, clock, lastDeleteTimestamp, pc,
                 queue, calls, watch, pass, attempt, completions>>

EndMaintenance ==
  /\ ClientAlive
  /\ \E hosts \in HostMaps :
       \E order \in RangeOrders(hosts) :
         client' = [op |-> "EndMaintenance", hosts |-> hosts,
                    request |-> EndMaintenanceRequest(hosts, order)]
  /\ UNCHANGED <<conf, faulty, pace, cloud, asg, mesos, aurora, clock, lastDeleteTimestamp, pc,
                 queue, calls, watch, pass, attempt, completions>>

DrainHosts ==
  /\ ClientAlive
  /\ \E hosts \in HostMaps :
       \E order \in RangeOrders(hosts) :
         client' = [op |-> "DrainHosts", hosts |-> hosts,
                    request |-> DrainHostsRequest(hosts, order)]
  /\ UNCHANGED <<conf, faulty, pace, cloud, asg, mesos, aurora, clock, lastDeleteTimestamp, pc,
                 queue, calls, watch, pass, attempt, completions>>

(* Mesos client: GetMesosTasks against a master that holds n tasks *)
GetMesosTasks ==
  /\ ClientAlive
  /\ \E n \in 0..MaxTasks :
       \E failAt \in 0..((n \div PageLimit) + 1) :
         client' = [op |-> "GetMesosTasks", n |-> n, failAt |-> failAt,
                    result |-> GetMesosTasksResult(n, failAt)]
  /\ UNCHANGED <<conf, faulty, pace, cloud, asg, mesos, aurora, clock, lastDeleteTimestamp, pc,
                 queue, calls, watch, pass, attempt, completions>>

----------------------------------------------------------------------------
(* The tick and the environment *)

(* the GetMaintenance responses the Aurora monitor may cache *)
AuroraResponses ==
  {[draining |-> {}, drained |-> {}],
   [draining |-> {IP(Instances[1])}, drained |-> {IP(Instances[2])}]}

NoMaintenance == [draining |-> {}, drained |-> {}]

(* what the cloud may have done to instance i since the previous tick: nothing, *)
(* or one step forward in its lifecycle                                        *)
NextLifecycle(state) ==
  {state} \cup
  (IF state = LifecycleStatePending THEN {LifecycleStateInService}
   ELSE IF state = LifecycleStateInService THEN {LifecycleStateTerminatingWait}
   ELSE {})

(* the cloud states that may follow c between two ticks: members move forward *)
(* in their lifecycle, terminated members in gone cease to be listed           *)
CloudEvolutions(c) ==
  {[c EXCEPT !.lifecycle = l, !.members = @ \ gone, !.marked = @ \ gone] :
     l \in {f \in [InstanceIds -> {LifecycleStatePending, LifecycleStateInService,
                                   LifecycleStateTerminatingWait,
                                   LifecycleStateTerminated}] :
              \A i \in InstanceIds :
                f[i] \in IF i \in c.members THEN NextLifecycle(c.lifecycle[i])
                         ELSE {c.lifecycle[i]}},
     gone \in SUBSET {i \in c.members : c.lifecycle[i] = LifecycleStateTerminated}}

(* start of a tick: every monitor refreshes from its client and so reads what *)
(* the cloud, Mesos and Aurora hold by now                                    *)
Refresh ==
  /\ pc = "idle"
  /\ \E c \in CloudEvolutions(cloud) :
       /\ cloud' = c
       /\ asg' = Snapshot(c)
       /\ watch' = WatchStart(Snapshot(c))
       /\ mesos' \in SUBSET {IP(i) : i \in c.members}
  /\ aurora' \in IF conf.AuroraURL THEN AuroraResponses ELSE {NoMaintenance}
  /\ calls' = <<>>
  /\ queue' = <<>>
  /\ pass' = NoPass
  /\ attempt' = NoAttempt
  /\ pc' = "watch"
  /\ UNCHANGED <<conf, faulty, pace, clock, lastDeleteTimestamp, completions, client>>

(* the state after construction, for the configurations confs, the calls       *)
(* faults that may fail and the clock advances steps, over the listed members, *)
(* of which marked carry the death mark from an earlier run                    *)
Start(confs, faults, steps, members, marked, desireds) ==
  /\ conf \in confs
  /\ faulty = faults
  /\ pace = steps
  /\ \E d \in desireds :
       cloud = [members   |-> members,
                desired   |-> d,
                marked    |-> marked,
                markTime  |-> [i \in InstanceIds |-> 0],
                lifecycle |-> [i \in InstanceIds |->
                                 IF i = Instances[1]
                                   THEN LifecycleStateInService
                                   ELSE LifecycleStatePending],
                protected |-> [i \in InstanceIds |-> TRUE]]
  /\ asg = Snapshot(cloud)
  /\ mesos = {}
  /\ aurora = NoMaintenance
  /\ clock = 0
  /\ lastDeleteTimestamp = ZeroTime
  /\ pc = "idle"
  /\ queue = <<>>
  /\ calls = <<>>
  /\ watch = WatchStart(Snapshot(cloud))
  /\ pass = NoPass
  /\ attempt = NoAttempt
  /\ completions = <<>>
  /\ client = NoClient

NotebookConfigurations ==
  [DelayDeleteSeconds : {0, Delay},
   AuroraURL          : BOOLEAN,
   ResetLifecycle     : {FALSE},
   LifecycleTimeout   : {HookTimeout},
   ConstraintsType    : {"noConstraint"}]

WatcherConfigurations ==
  [DelayDeleteSeconds : {0},
   AuroraURL          : {FALSE},
   ResetLifecycle     : {FALSE},
   LifecycleTimeout   : {HookTimeout},
   ConstraintsType    : {"noConstraint", "protectedConstraint"}]

(* Aurora configured, with and without rate limit and lifecycle heartbeat *)
FaultConfigurations ==
  [DelayDeleteSeconds : {0, Delay},
   AuroraURL          : {TRUE},
   ResetLifecycle     : BOOLEAN,
   LifecycleTimeout   : {HookTimeout},
   ConstraintsType    : {"noConstraint"}]

(* the calls of the Notebook whose result it reads or logs *)
NotebookOperations ==
  {"DescribeInstancesByTag", "SetMesosAgentsInMaintenance",
   "RecordLifecycleActionHeartbeat", "DrainHosts", "CompleteLifecycleAction"}

(* the service starts over two members that carry the death mark already *)
Init ==
  Start(NotebookConfigurations, {"DrainHosts", "CompleteLifecycleAction"}, 0..MaxStep,
        {Instances[1], Instances[2]}, {Instances[1], Instances[2]}, {2})

(* the service starts over three unmarked members *)
InitWatcher ==
  Start(WatcherConfigurations, {"SetInstanceTag"}, {0}, InstanceIds, {}, 1..MaxDesired)

(* the service starts over two members and three death-marked instances, one *)
(* of which no monitored autoscaling group lists; the calls may fail          *)
InitFaults ==
  Start(FaultConfigurations, NotebookOperations, 0..MaxStep,
        {Instances[1], Instances[3]}, InstanceIds, {2})

(* AuroraMonitor.getMaintenance: GetMaintenance returned response, or an     *)
(* error and no response (ok = FALSE); the response is dereferenced on both *)
(* paths, which ends the service when there is none                         *)
getMaintenance(response, ok) ==
  [crashed |-> ~ok, maintenance |-> IF ok THEN response ELSE NoMaintenance]

(* AuroraMonitor.Refresh *)
AuroraMonitorRefresh ==
  /\ ClientAlive
  /\ \E response \in AuroraResponses, ok \in BOOLEAN :
       LET r == getMaintenance(response, ok)
       IN  client' = [op |-> "AuroraMonitor.Refresh", failed |-> ~ok,
                      crashed |-> r.crashed, maintenance |-> r.maintenance]
  /\ UNCHANGED <<conf, faulty, pace, cloud, asg, mesos, aurora, clock, lastDeleteTimestamp, pc,
                 queue, calls, watch, pass, attempt, completions>>

(* Aurora, the lifecycle heartbeat and the rate limit configured *)
OrderConfigurations ==
  [DelayDeleteSeconds : {Delay},
   AuroraURL          : {TRUE},
   ResetLifecycle     : {TRUE},
   LifecycleTimeout   : {HookTimeout},
   ConstraintsType    : {"noConstraint"}]

(* the service starts over two death-marked members; removing the instance  *)
(* protection, draining and completing may fail                             *)
InitOrder ==
  Start(OrderConfigurations,
        {"RemoveInstanceProtection", "DrainHosts", "CompleteLifecycleAction"}, 0..MaxStep,
        {Instances[1], Instances[2]}, {Instances[1], Instances[2]}, {2})

(* the service starts over two death-marked members; putting the agents in   *)
(* maintenance, removing the instance protection and the lifecycle heartbeat *)
(* may fail                                                                  *)
InitPreparation ==
  Start(OrderConfigurations,
        {"SetMesosAgentsInMaintenance", "RemoveInstanceProtection",
         "RecordLifecycleActionHeartbeat"}, 0..MaxStep,
        {Instances[1], Instances[2]}, {Instances[1], Instances[2]}, {2})

(* Aurora and the rate limit configured *)
LiveConfigurations ==
  [DelayDeleteSeconds : {Delay},
   AuroraURL          : {TRUE},
   ResetLifecycle     : {FALSE},
   LifecycleTimeout   : {HookTimeout},
   ConstraintsType    : {"noConstraint"}]

(* the service starts over two death-marked members; draining and completing *)
(* may fail                                                                  *)
InitLive ==
  Start(LiveConfigurations, {"DrainHosts", "CompleteLifecycleAction"}, 0..MaxStep,
        {Instances[1], Instances[2]}, {Instances[1], Instances[2]}, {2})

(* The clock has no last reading.  When it shows MaxClock the readings the   *)
(* rate limit compares are moved back together: a lastDeleteTimestamp still  *)
(* within the delay keeps its distance to the clock, an older one is as long *)
(* ago as time.Time{}.  Clock.Since(lastDeleteTimestamp) <= DelayDeleteSeconds *)
(* is the same before and after.                                             *)
ClockRunsOn ==
  /\ clock = MaxClock
  /\ LET recent == /\ lastDeleteTimestamp # ZeroTime
                   /\ clock - lastDeleteTimestamp <= conf.DelayDeleteSeconds
         shift  == IF recent THEN lastDeleteTimestamp ELSE clock
     IN  /\ shift > 0
         /\ clock' = clock - shift
         /\ lastDeleteTimestamp' = IF recent THEN 0 ELSE ZeroTime
  /\ UNCHANGED <<conf, faulty, pace, cloud, asg, mesos, aurora, pc, queue, calls, watch, pass,
                 attempt, completions, client>>

(* the ticker of Run fires: an idle service starts its next tick.  Refresh is *)
(* the only step that takes pc from idle to watch                            *)
TickStarts == pc = "idle" /\ pc' = "watch"

(* the loop of DestroyInstancesAttempt goes on to its next instance:         *)
(* DestroyInstanceAttemptStep is the only step that takes the head off queue *)
AttemptMade == pc = "attempt" /\ queue # <<>> /\ queue' = Tail(queue)

(* an attempt before which the clock has advanced *)
ClockAdvances ==
  /\ pc = "attempt"
  /\ queue # <<>>
  /\ \E step \in pace : step > 0 /\ clock + step <= MaxClock /\ clock' = clock + step

(* the clients and the Aurora monitor next to an idle service *)
InitClient ==
  Start({[DelayDeleteSeconds |-> 0, AuroraURL |-> TRUE, ResetLifecycle |-> FALSE,
          LifecycleTimeout |-> HookTimeout, ConstraintsType |-> "noConstraint"]},
        {}, {0}, {}, {}, {0})

Next ==
  \/ Refresh
  \/ RemoveUndesiredInstances
  \/ DestroyInstancesAttempt
  \/ DestroyInstanceAttemptStep

Spec == Init /\ [][Next]_vars

SpecWatcher == InitWatcher /\ [][Next]_vars

SpecFaults == InitFaults /\ [][Next]_vars

SpecOrder == InitOrder /\ [][Next]_vars

SpecPreparation == InitPreparation /\ [][Next]_vars

NextLive ==
  \/ Next
  \/ ClockRunsOn

(* ticks keep occurring, every started tick runs to its end and the clock    *)
(* keeps advancing                                                           *)
SpecLive ==
  /\ InitLive
  /\ [][NextLive]_vars
  /\ WF_pc(TickStarts)
  /\ WF_vars(RemoveUndesiredInstances)
  /\ WF_vars(DestroyInstancesAttempt)
  /\ WF_queue(AttemptMade)
  /\ WF_vars(ClockRunsOn)
  /\ SF_clock(ClockAdvances)

NextClient ==
  \/ SetMesosAgentsInMaintenance
  \/ StartMaintenance
  \/ EndMaintenance
  \/ DrainHosts
  \/ GetMesosTasks
  \/ AuroraMonitorRefresh

SpecClient == InitClient /\ [][NextClient]_vars

----------------------------------------------------------------------------
(* Properties *)

Issued(op, i) == \E k \in 1..Len(calls) : calls[k].op = op /\ calls[k].id = i

Failed(op, i) ==
  \E k \in 1..Len(calls) : calls[k].op = op /\ calls[k].id = i /\ ~calls[k].ok

Attempted == attempt.id # NoVictim /\ attempt.found

RateLimited == conf.DelayDeleteSeconds > 0

(* the attempt ran while the time since the last completion was within the delay *)
WithinDelay ==
  /\ attempt.before # ZeroTime
  /\ attempt.at - attempt.before <= conf.DelayDeleteSeconds

(* C1: in a Notebook pass no CompleteLifecycleAction is issued for a marked  *)
(* instance whose IP is protected in the tick's Mesos snapshot, whatever its *)
(* lifecycle state, the Aurora configuration and the rate-limit state.       *)
C1_NoCompleteForProtected ==
  \A k \in 1..Len(calls) :
    calls[k].op = "CompleteLifecycleAction" => IP(calls[k].id) \notin mesos

(* an attempt that reached the kill check on a protected instance in         *)
(* TERMINATING_WAIT *)
C1_Witness ==
  /\ Attempted
  /\ IP(attempt.id) \in mesos
  /\ asg.lifecycle[attempt.id] = LifecycleStateTerminatingWait
  /\ ~attempt.waited
  /\ attempt.err = "none"
  /\ ~Issued("CompleteLifecycleAction", attempt.id)

(* C2: with DelayDeleteSeconds = D > 0, any two successful                   *)
(* CompleteLifecycleAction calls are more than D seconds apart, so never at  *)
(* the same clock reading.                                                   *)
C2_CompletionsSpaced ==
  RateLimited =>
    \A j, k \in 1..Len(completions) :
      j < k => completions[k].t - completions[j].t > conf.DelayDeleteSeconds

(* two successful completions under a rate limit *)
C2_Witness == RateLimited /\ Len(completions) = 2

(* C3 as stated: CompleteLifecycleAction is issued only for an instance in   *)
(* TERMINATING_WAIT, and an attempt on an instance in another state returns  *)
(* without error and without issuing it.                                     *)
C3_Original ==
  /\ \A k \in 1..Len(calls) :
       calls[k].op = "CompleteLifecycleAction" =>
         asg.lifecycle[calls[k].id] = LifecycleStateTerminatingWait
  /\ (Attempted /\ asg.lifecycle[attempt.id] # LifecycleStateTerminatingWait) =>
       /\ ~Issued("CompleteLifecycleAction", attempt.id)
       /\ attempt.err = "none"

(* C3 amended: CompleteLifecycleAction is issued only for an instance in     *)
(* TERMINATING_WAIT; an attempt on an instance in another state issues none  *)
(* and returns without error unless Aurora is configured and its DrainHosts  *)
(* call failed, in which case it returns that error.                         *)
C3_OnlyTerminatingWait ==
  /\ \A k \in 1..Len(calls) :
       calls[k].op = "CompleteLifecycleAction" =>
         asg.lifecycle[calls[k].id] = LifecycleStateTerminatingWait
  /\ (Attempted /\ asg.lifecycle[attempt.id] # LifecycleStateTerminatingWait) =>
       /\ ~Issued("CompleteLifecycleAction", attempt.id)
       /\ \/ attempt.err = "none"
          \/ /\ attempt.err = "drain"
             /\ conf.AuroraURL
             /\ Failed("DrainHosts", attempt.id)
       /\ Failed("DrainHosts", attempt.id) => attempt.err = "drain"

(* an attempt that reached destroyInstance on an unprotected instance that is *)
(* not in TERMINATING_WAIT *)
C3_Witness ==
  /\ Attempted
  /\ asg.lifecycle[attempt.id] # LifecycleStateTerminatingWait
  /\ IP(attempt.id) \notin mesos
  /\ ~attempt.waited
  /\ attempt.err = "none"

(* the members that RemoveUndesiredInstances marked in the current tick *)
NewlyMarked == cloud.marked \ watch.before

(* the unmarked members at the start of the tick that pass the constraint *)
Candidates ==
  SelectSeq(asg.members,
            LAMBDA i : /\ i \notin watch.before
                       /\ (conf.ConstraintsType = "protectedConstraint"
                             => IP(i) \notin mesos))

(* C4: the instances RemoveUndesiredInstances marks in a tick are at most    *)
(* NumUndesiredInstances() as returned at the start of the call; none when   *)
(* that value is 0.                                                          *)
C4_MarkedAtMostUndesired ==
  /\ Cardinality(NewlyMarked) <= Max(0, Len(asg.members) - asg.desired)
  /\ Len(watch.newly) = Cardinality(NewlyMarked)
  /\ watch.numUndesired = 0 => NewlyMarked = {}

(* a call that marked two instances, as many as were undesired *)
C4_Witness ==
  /\ watch.ran
  /\ watch.numUndesired = 2
  /\ Cardinality(NewlyMarked) = 2

(* C5 as stated: marking N instances does not re-trigger marking N more, so  *)
(* the death-marked members never exceed len(members) - desired.             *)
C5_Original ==
  Cardinality(cloud.marked \cap cloud.members)
    <= Max(0, Cardinality(cloud.members) - cloud.desired)

(* C6: no Watcher or Notebook operation clears a death mark: an instance     *)
(* that is marked and stays listed by the cloud stays marked, in the cloud   *)
(* and in the monitor's record.                                              *)
C6_MarkNeverCleared ==
  [][/\ \A i \in cloud.marked : i \in cloud'.members => i \in cloud'.marked
     /\ pc # "idle" => asg.marked \subseteq asg'.marked]_vars

(* a tick has run to its end over an instance marked in an earlier tick *)
C6_Witness ==
  /\ pc = "idle"
  /\ pass.ran
  /\ watch.before # {}
  /\ NewlyMarked # {}
  /\ watch.before \subseteq cloud.marked

(* C7: with k instances undesired, at least k candidates and no marking      *)
(* error, the call marks exactly the first k candidates in ASG order, each   *)
(* once; desired 2 over unmarked i-A, i-B, i-C marks exactly i-A.            *)
C7_MarksFirstCandidates ==
  (/\ watch.ran
   /\ watch.failed = NoVictim
   /\ Len(Candidates) >= watch.numUndesired) =>
    /\ watch.newly = SubSeq(Candidates, 1, watch.numUndesired)
    /\ NewlyMarked = Range(watch.newly)
    /\ ~watch.crashed
    /\ (/\ asg.members = Instances
        /\ asg.desired = 2
        /\ watch.before = {}
        /\ Candidates = Instances) => NewlyMarked = {"i-A"}

(* two instances undesired, three candidates: the first two are marked *)
C7_Witness ==
  /\ watch.ran
  /\ watch.failed = NoVictim
  /\ watch.numUndesired = 2
  /\ Len(Candidates) = 3
  /\ watch.newly = <<"i-A", "i-B">>

(* C8 as stated: when instances are undesired but no candidate passes the    *)
(* constraint, RemoveUndesiredInstances marks nothing and ends without       *)
(* failing.                                                                  *)
C8_Original ==
  (watch.ran /\ watch.numUndesired > 0 /\ Candidates = <<>>) =>
    /\ NewlyMarked = {}
    /\ ~watch.crashed
    /\ pc # "crashed"

(* C9: the protected constraint keeps exactly the unprotected candidates, so *)
(* a Watcher configured with it never marks an instance whose IP is          *)
(* protected; with i-A protected and desired 2 over i-A, i-B, i-C, i-B is    *)
(* marked and i-A is not.                                                    *)
C9_ProtectedNeverMarked ==
  conf.ConstraintsType = "protectedConstraint" =>
    /\ watch.ran => watch.candidates = Candidates
    /\ \A i \in NewlyMarked : IP(i) \notin mesos
    /\ (/\ watch.ran
        /\ watch.failed = NoVictim
        /\ asg.members = Instances
        /\ asg.desired = 2
        /\ watch.before = {}
        /\ mesos = {IP("i-A")}) => NewlyMarked = {"i-B"}

(* the first member is protected and the second is marked in its place *)
C9_Witness ==
  /\ conf.ConstraintsType = "protectedConstraint"
  /\ watch.ran
  /\ asg.members = Instances
  /\ asg.desired = 2
  /\ mesos = {IP("i-A")}
  /\ NewlyMarked = {"i-B"}

AuroraOperations == {"DrainHosts", "StartMaintenance", "EndMaintenance"}

(* C11: lastDeleteTimestamp changes only in an attempt whose                 *)
(* CompleteLifecycleAction succeeded while DelayDeleteSeconds # 0, and then  *)
(* becomes the clock's reading; a failed or skipped completion and every     *)
(* step with DelayDeleteSeconds = 0 leave it unchanged; it never decreases.  *)
C11_LastDeleteFrame ==
  [][/\ lastDeleteTimestamp' >= lastDeleteTimestamp
     /\ lastDeleteTimestamp' # lastDeleteTimestamp =>
          /\ pc = "attempt"
          /\ attempt'.completed
          /\ calls'[Len(calls') - 1] =
               Call("CompleteLifecycleAction", attempt'.id, {}, TRUE)
          /\ conf.DelayDeleteSeconds # 0
          /\ lastDeleteTimestamp' = clock'
     /\ (pc = "attempt" /\ attempt'.completed /\ conf.DelayDeleteSeconds # 0) =>
          lastDeleteTimestamp' = clock'
     /\ (pc = "attempt" /\ ~attempt'.completed) =>
          lastDeleteTimestamp' = lastDeleteTimestamp
     /\ conf.DelayDeleteSeconds = 0 => lastDeleteTimestamp' = ZeroTime]_vars

(* a completion under a rate limit moved lastDeleteTimestamp forward from an *)
(* earlier completion to the clock's reading *)
C11_Witness ==
  /\ RateLimited
  /\ attempt.completed
  /\ attempt.before # ZeroTime
  /\ lastDeleteTimestamp = attempt.at
  /\ lastDeleteTimestamp > attempt.before

(* C12: every CompleteLifecycleAction an attempt issues is followed in the   *)
(* same attempt by an EndMaintenance call with the host map {ip -> ip} of    *)
(* that instance, whether the completion succeeded or returned an error.     *)
C12_EndMaintenanceFollows ==
  \A k \in 1..Len(calls) :
    calls[k].op = "CompleteLifecycleAction" =>
      /\ k + 1 <= Len(calls)
      /\ calls[k + 1].op = "EndMaintenance"
      /\ calls[k + 1].id = calls[k].id
      /\ calls[k + 1].hosts = {<<IP(calls[k].id), IP(calls[k].id)>>}

(* a completion that returned an error, with EndMaintenance issued after it *)
C12_Witness ==
  /\ Attempted
  /\ attempt.err = "complete"
  /\ Failed("CompleteLifecycleAction", attempt.id)
  /\ Issued("EndMaintenance", attempt.id)

(* C13 as stated: with AuroraURL empty, a pass over a marked, unprotected    *)
(* instance in TERMINATING_WAIT issues CompleteLifecycleAction for it and no *)
(* call to Aurora.                                                           *)
C13_Original ==
  ~conf.AuroraURL =>
    /\ \A k \in 1..Len(calls) : calls[k].op \notin AuroraOperations
    /\ (/\ Attempted
        /\ ~attempt.waited
        /\ IP(attempt.id) \notin mesos
        /\ asg.lifecycle[attempt.id] = LifecycleStateTerminatingWait) =>
         Issued("CompleteLifecycleAction", attempt.id)

MaintenanceCalls == {k \in 1..Len(calls) : calls[k].op = "SetMesosAgentsInMaintenance"}

(* C14: a Notebook pass in which DescribeInstancesByTag returned a non-empty *)
(* list issues exactly one SetMesosAgentsInMaintenance call, whose host map  *)
(* holds the (private DNS, private IP) pair of every returned instance; a    *)
(* pass with no death-marked instance issues none.                           *)
C14_OneMaintenanceCall ==
  /\ (pass.ran /\ pass.instances # <<>>) =>
       /\ Cardinality(MaintenanceCalls) = 1
       /\ Range(pass.instances) = cloud.marked
       /\ \A k \in MaintenanceCalls :
            \A i \in cloud.marked : <<DNS(i), IP(i)>> \in calls[k].hosts
  /\ (~pass.ran \/ pass.instances = <<>>) => MaintenanceCalls = {}
  /\ (pass.ran /\ ~pass.err /\ cloud.marked # {}) => pass.instances # <<>>

(* a finished pass over three marked instances whose one maintenance call    *)
(* returned an error *)
C14_Witness ==
  /\ pc = "idle"
  /\ pass.ran
  /\ Len(pass.instances) = 3
  /\ Cardinality(MaintenanceCalls) = 1
  /\ \E k \in MaintenanceCalls : ~calls[k].ok

(* C15: an error in one instance's attempt (lookup failure, DrainHosts error *)
(* or CompleteLifecycleAction error) does not stop the pass: every instance  *)
(* DescribeInstancesByTag returned gets exactly one attempt, in the returned *)
(* order, and DestroyInstancesAttempt returns no error.                      *)
C15_PassSurvivesErrors ==
  /\ pass.ran => pass.attempted \o queue = pass.instances
  /\ (pc = "idle" /\ pass.ran) => pass.attempted = pass.instances
  /\ (pass.ran /\ pass.instances # <<>>) => ~pass.err
  /\ \A i \in InstanceIds :
       Cardinality({k \in 1..Len(pass.attempted) : pass.attempted[k] = i}) <= 1

(* a finished pass over i-A, i-B, i-C in which DrainHosts failed for i-A, no  *)
(* monitored group lists i-B and CompleteLifecycleAction failed for i-C      *)
C15_Witness ==
  /\ pc = "idle"
  /\ pass.attempted = <<"i-A", "i-B", "i-C">>
  /\ Failed("DrainHosts", "i-A")
  /\ ~GetInstanceByID(asg, "i-B")
  /\ Failed("CompleteLifecycleAction", "i-C")

(* C16: with Aurora configured, an attempt whose DrainHosts call returned an *)
(* error is aborted: no CompleteLifecycleAction and no EndMaintenance is     *)
(* issued for that instance in the pass and lastDeleteTimestamp is           *)
(* unchanged; the attempts on the remaining marked instances still run.      *)
C16_DrainErrorAborts ==
  /\ \A i \in InstanceIds :
       Failed("DrainHosts", i) =>
         /\ conf.AuroraURL
         /\ ~Issued("CompleteLifecycleAction", i)
         /\ ~Issued("EndMaintenance", i)
  /\ (Attempted /\ Failed("DrainHosts", attempt.id)) =>
       /\ attempt.err = "drain"
       /\ lastDeleteTimestamp = attempt.before
  /\ (pc = "idle" /\ pass.ran /\ \E i \in InstanceIds : Failed("DrainHosts", i)) =>
       pass.attempted = pass.instances

(* under a rate limit DrainHosts failed for i-A and the pass went on to      *)
(* complete the lifecycle action of i-C *)
C16_Witness ==
  /\ RateLimited
  /\ pc = "idle"
  /\ Failed("DrainHosts", "i-A")
  /\ attempt.id = "i-C"
  /\ attempt.completed

(* the time between the death mark of the attempted instance and its attempt *)
SinceMark == attempt.at - asg.markTime[attempt.id]

(* C17: an attempt issues RecordLifecycleActionHeartbeat exactly when        *)
(* ResetLifecycle is true, the instance is in TERMINATING_WAIT and the time  *)
(* since its death mark is strictly greater than LifecycleTimeout times      *)
(* LifeCycleRefreshTimeoutPercentage, also for a Mesos-protected instance    *)
(* and for an attempt the rate limit then stops; with timeout 600 and        *)
(* percentage 0.7 it is issued 500 s after the mark and not 100 s after it.  *)
C17_HeartbeatExactlyWhenDue ==
  /\ Attempted =>
       (Issued("RecordLifecycleActionHeartbeat", attempt.id) <=>
          /\ conf.ResetLifecycle
          /\ asg.lifecycle[attempt.id] = LifecycleStateTerminatingWait
          /\ SinceMark * 10 > conf.LifecycleTimeout * 7)
  /\ \A k \in 1..Len(calls) :
       calls[k].op = "RecordLifecycleActionHeartbeat" =>
         /\ calls[k].id \in Range(pass.attempted)
         /\ GetInstanceByID(asg, calls[k].id)
  /\ resetLifecycleDue(LifecycleStateTerminatingWait, 500, 600)
  /\ ~resetLifecycleDue(LifecycleStateTerminatingWait, 100, 600)

(* a heartbeat for a Mesos-protected instance in an attempt that the rate    *)
(* limit stopped *)
C17_Witness ==
  /\ Attempted
  /\ Issued("RecordLifecycleActionHeartbeat", attempt.id)
  /\ IP(attempt.id) \in mesos
  /\ attempt.waited

(* C18: AuroraMonitor.DrainHosts forwards exactly the supplied hosts whose   *)
(* IP is neither DRAINING nor DRAINED in the monitor's cache: a DRAINING or  *)
(* DRAINED host is never forwarded, every other supplied host is, with its   *)
(* dns -> ip pair unchanged; IsDraining(ip) holds exactly for the keys of    *)
(* the DRAINING map.                                                         *)
C18_DrainHostsAndForm ==
  /\ \A k \in 1..Len(calls) :
       calls[k].op = "DrainHosts" =>
         calls[k].hosts =
           IF IP(calls[k].id) \in aurora.draining \cup aurora.drained
             THEN {}
             ELSE {<<DNS(calls[k].id), IP(calls[k].id)>>}
  /\ \A i \in InstanceIds : IsDraining(aurora, IP(i)) <=> IP(i) \in aurora.draining

(* DrainHosts was called for i-A, which is DRAINING, and for i-B, which is   *)
(* DRAINED, and neither host was forwarded *)
C18_Witness ==
  /\ IP("i-A") \in aurora.draining
  /\ IP("i-B") \in aurora.drained
  /\ \E k \in 1..Len(calls) :
       calls[k].op = "DrainHosts" /\ calls[k].id = "i-A" /\ calls[k].hosts = {}
  /\ \E k \in 1..Len(calls) :
       calls[k].op = "DrainHosts" /\ calls[k].id = "i-B" /\ calls[k].hosts = {}

(* C19: when MarkToBeRemoved returns an error for the chosen instance,       *)
(* RemoveUndesiredInstances stops marking in this tick: the failed instance  *)
(* is not counted and not marked, no later candidate is marked, and the call *)
(* returns no error, so the Notebook pass of the tick still runs.            *)
C19_MarkErrorBreaks ==
  (watch.ran /\ watch.failed # NoVictim) =>
    /\ watch.failed \notin cloud.marked
    /\ watch.failed \notin asg.marked
    /\ watch.removedInstances = Len(watch.newly)
    /\ Len(watch.newly) < watch.numUndesired
    /\ NewlyMarked = Range(watch.newly)
    /\ watch.newly \o <<watch.failed>> = SubSeq(Candidates, 1, Len(watch.newly) + 1)
    /\ ~watch.crashed
    /\ pc \in {"notebook", "attempt", "idle"}
    /\ pc = "idle" => pass.ran

(* two instances were undesired, marking the first candidate failed, nothing *)
(* was marked and the Notebook pass of the tick has run *)
C19_Witness ==
  /\ watch.ran
  /\ watch.numUndesired = 2
  /\ watch.failed = "i-A"
  /\ NewlyMarked = {}
  /\ pc = "idle"
  /\ pass.ran

(* the queries that do not depend on the death marks return the same data    *)
(* before and after the step *)
SameMembership ==
  /\ GetInstances(asg') = GetInstances(asg)
  /\ NumUndesiredInstances(asg') = NumUndesiredInstances(asg)
  /\ \A i \in InstanceIds : GetInstanceByID(asg', i) = GetInstanceByID(asg, i)

(* C20 as stated: between two Refresh() calls every query of the             *)
(* AutoscalingGroupMonitor (GetInstances, GetInstancesNotMarkedToBeRemoved,  *)
(* NumUndesiredInstances, GetInstanceByID) returns the same data, whatever   *)
(* Watcher and Notebook operations, MarkToBeRemoved included, run in between. *)
C20_Original ==
  [][pc # "idle" =>
       /\ SameMembership
       /\ GetInstancesNotMarkedToBeRemoved(asg') = GetInstancesNotMarkedToBeRemoved(asg)]_vars

(* C20 amended: between two Refresh() calls GetInstances,                    *)
(* NumUndesiredInstances and GetInstanceByID return the same data whatever   *)
(* runs in between; GetInstancesNotMarkedToBeRemoved changes only by losing  *)
(* the instances that MarkToBeRemoved marked, each of them once, and no      *)
(* Notebook operation changes what the monitor returns.                      *)
C20_SnapshotExceptMarks ==
  [][pc # "idle" =>
       /\ SameMembership
       /\ pc = "watch" =>
            /\ GetInstancesNotMarkedToBeRemoved(asg') =
                 SelectSeq(GetInstancesNotMarkedToBeRemoved(asg),
                           LAMBDA i : i \notin Range(watch'.newly))
            /\ Len(GetInstancesNotMarkedToBeRemoved(asg))
                 - Len(GetInstancesNotMarkedToBeRemoved(asg')) = Len(watch'.newly)
       /\ pc # "watch" => asg' = asg]_vars

(* a tick has run to its end after MarkToBeRemoved took two instances out of *)
(* the unmarked ones *)
C20_Witness ==
  /\ pc = "idle"
  /\ pass.ran
  /\ Len(watch.newly) = 2
  /\ asg.marked = watch.before \cup Range(watch.newly)
  /\ Len(GetInstancesNotMarkedToBeRemoved(asg)) = Len(asg.members) - Cardinality(asg.marked)

(* the entries of host map hosts whose value is ip *)
EntriesWithIP(hosts, ip) == {h \in DOMAIN hosts : hosts[h] = ip}

(* C21: for every host map, the empty one included, the Mesos maintenance    *)
(* payload holds exactly one window; its machineIds list has exactly one     *)
(* entry per map entry, with hostname the key and ip the value, so as many   *)
(* entries as the map; its unavailability start is a nonzero nanosecond      *)
(* value.                                                                    *)
C21_MesosPayload ==
  client.op = "SetMesosAgentsInMaintenance" =>
    /\ Len(client.payload.windows) = 1
    /\ LET ids == client.payload.windows[1].machine_ids
       IN  /\ Len(ids) = Cardinality(DOMAIN client.hosts)
           /\ \A h \in DOMAIN client.hosts :
                /\ Cardinality({k \in 1..Len(ids) : ids[k].hostname = h}) = 1
                /\ \A k \in 1..Len(ids) : ids[k].hostname = h => ids[k].ip = client.hosts[h]
    /\ client.payload.windows[1].unavailability.start.nanoseconds # 0

(* the payload of a map of three hosts, two of which have the same IP *)
C21_Witness ==
  /\ client.op = "SetMesosAgentsInMaintenance"
  /\ Cardinality(DOMAIN client.hosts) = 3
  /\ client.hosts[DNS("i-A")] = client.hosts[DNS("i-B")]
  /\ Len(client.payload.windows[1].machine_ids) = 3

(* C22: for every host map, the empty one included, the hostNames list of    *)
(* the Aurora maintenance payload has exactly one entry per map entry, which *)
(* is that entry's IP (the value, not the DNS key), so as many entries as    *)
(* the map.                                                                  *)
C22_AuroraPayload ==
  client.op \in {"StartMaintenance", "EndMaintenance", "DrainHosts"} =>
    LET names == client.request.payload.hosts.hostNames
    IN  /\ Len(names) = Cardinality(DOMAIN client.hosts)
        /\ \A k \in 1..Len(names) : names[k] \in IPs
        /\ \A ip \in IPs :
             Cardinality({k \in 1..Len(names) : names[k] = ip})
               = Cardinality(EntriesWithIP(client.hosts, ip))

(* the payload of a map of three hosts, two of which have the same IP *)
C22_Witness ==
  /\ client.op = "StartMaintenance"
  /\ Cardinality(DOMAIN client.hosts) = 3
  /\ client.hosts[DNS("i-A")] = client.hosts[DNS("i-B")]
  /\ client.hosts[DNS("i-C")] # client.hosts[DNS("i-A")]
  /\ Len(client.request.payload.hosts.hostNames) = 3

(* C23 as stated: each operation of the Aurora client posts to its own       *)
(* endpoint: StartMaintenance to /startMaintenance, EndMaintenance to        *)
(* /endMaintenance, DrainHosts to /drainHosts; an EndMaintenance call never  *)
(* sends a drainHosts request.                                               *)
C23_Original ==
  /\ client.op = "StartMaintenance" => client.request.path = "/startMaintenance"
  /\ client.op = "EndMaintenance" =>
       /\ client.request.path = "/endMaintenance"
       /\ client.request.path # "/drainHosts"
  /\ client.op = "DrainHosts" => client.request.path = "/drainHosts"

(* the offsets GetMesosTasks requested, in order *)
Requested == client.result.requests

(* C24: GetMesosTasks requests pages of 100 tasks at offsets 0, 100, 200,    *)
(* ... in increasing order, asks for the next page exactly when the page     *)
(* just received holds 100 tasks, stops after the first page with fewer, and *)
(* returns the pages it received concatenated in that order; it ends for     *)
(* every finite task list.                                                   *)
C24_PagesConcatenated ==
  client.op = "GetMesosTasks" =>
    /\ Len(Requested) >= 1
    /\ Len(Requested) <= (client.n \div 100) + 1
    /\ \A k \in 1..Len(Requested) : Requested[k] = 100 * (k - 1)
    /\ \A k \in 1..(Len(Requested) - 1) :
         k # client.failAt /\ client.n - Requested[k] >= 100
    /\ \/ Len(Requested) = client.failAt
       \/ client.n - Requested[Len(Requested)] < 100
    /\ (client.failAt = 0) =>
         /\ ~client.result.err
         /\ client.result.tasks = [k \in 1..client.n |-> k]

(* three pages: two of 100 tasks and a last one with a single task *)
C24_Witness ==
  /\ client.op = "GetMesosTasks"
  /\ client.failAt = 0
  /\ client.n = 201
  /\ Requested = <<0, 100, 200>>
  /\ Len(client.result.tasks) = 201

(* C26 as stated: GetMesosTasks returns an error whenever the request for a  *)
(* page fails, the first or a later one, and never a partial task list with  *)
(* a nil error.                                                              *)
C26_Original ==
  (client.op = "GetMesosTasks" /\ client.failAt # 0) =>
    /\ client.result.err
    /\ client.result.tasks = <<>>

(* C27 as stated: when GetMaintenance fails, AuroraMonitor.Refresh logs the  *)
(* error and returns without ending the service, and the cache stays         *)
(* readable for the rest of the tick.                                        *)
C27_Original ==
  (client.op = "AuroraMonitor.Refresh" /\ client.failed) =>
    /\ ~client.crashed
    /\ ClientAlive

(* the place of a per-instance call in the sequence of an attempt *)
StepOf(op) ==
  CASE op = "RemoveInstanceProtection" -> 1
    [] op = "RecordLifecycleActionHeartbeat" -> 2
    [] op = "DrainHosts" -> 3
    [] op = "CompleteLifecycleAction" -> 4
    [] op = "EndMaintenance" -> 5
    [] OTHER -> 0

PerInstance(k) == calls[k].id # NoVictim

(* the place of instance i in the list the pass works through *)
PlaceInPass(i) == CHOOSE p \in 1..Len(pass.instances) : pass.instances[p] = i

(* C25: in a Notebook pass the single Mesos maintenance call precedes every  *)
(* per-instance call; the calls of one attempt come in the order             *)
(* RemoveInstanceProtection, RecordLifecycleActionHeartbeat, (rate-limit     *)
(* gate,) DrainHosts, CompleteLifecycleAction, EndMaintenance; an attempt    *)
(* the rate limit stopped issues neither DrainHosts nor                      *)
(* CompleteLifecycleAction; with Aurora configured every                     *)
(* CompleteLifecycleAction comes after that attempt's DrainHosts.            *)
C25_CallsOrdered ==
  /\ \A k \in 1..Len(calls) :
       PerInstance(k) =>
         /\ calls[1].op = "SetMesosAgentsInMaintenance"
         /\ calls[k].id \in Range(pass.instances)
  /\ \A k \in 2..Len(calls) : PerInstance(k)
  /\ \A j, k \in 1..Len(calls) :
       (j < k /\ PerInstance(j) /\ PerInstance(k)) =>
         /\ PlaceInPass(calls[j].id) <= PlaceInPass(calls[k].id)
         /\ calls[j].id = calls[k].id => StepOf(calls[j].op) < StepOf(calls[k].op)
  /\ (Attempted /\ attempt.waited) =>
       /\ ~Issued("DrainHosts", attempt.id)
       /\ ~Issued("CompleteLifecycleAction", attempt.id)
       /\ ~Issued("EndMaintenance", attempt.id)
  /\ conf.AuroraURL =>
       \A k \in 1..Len(calls) :
         calls[k].op = "CompleteLifecycleAction" =>
           \E j \in 1..(k - 1) :
             calls[j].op = "DrainHosts" /\ calls[j].id = calls[k].id /\ calls[j].ok

(* an attempt that issued all five calls, in that order *)
C25_Witness ==
  /\ Attempted
  /\ Len(attempt.calls) = 5
  /\ \A k \in 1..5 : StepOf(attempt.calls[k].op) = k
  /\ Len(calls) > 6

(* C29: the Notebook issues EndMaintenance for an instance only right after  *)
(* the CompleteLifecycleAction of the same attempt: an instance that is      *)
(* Mesos-protected, rate-limited, not in TERMINATING_WAIT or whose drain     *)
(* failed never has its maintenance ended by the Notebook.                   *)
C29_EndMaintenanceOnlyAfterComplete ==
  /\ \A k \in 1..Len(calls) :
       calls[k].op = "EndMaintenance" =>
         /\ k > 1
         /\ calls[k - 1].op = "CompleteLifecycleAction"
         /\ calls[k - 1].id = calls[k].id
  /\ \A i \in Range(pass.attempted) :
       (\/ IP(i) \in mesos
        \/ ~GetInstanceByID(asg, i)
        \/ asg.lifecycle[i] # LifecycleStateTerminatingWait
        \/ Failed("DrainHosts", i)) => ~Issued("EndMaintenance", i)
  /\ (Attempted /\ attempt.waited) => ~Issued("EndMaintenance", attempt.id)

(* a pass is over in which one instance was Mesos-protected, the drain of    *)
(* another failed, and no maintenance was ended *)
C29_Witness ==
  /\ pc = "idle"
  /\ \E i, j \in Range(pass.attempted) :
       /\ IP(i) \in mesos
       /\ asg.lifecycle[i] = LifecycleStateTerminatingWait
       /\ Issued("DrainHosts", i)
       /\ ~Failed("DrainHosts", i)
       /\ asg.lifecycle[j] = LifecycleStateTerminatingWait
       /\ IP(j) \notin mesos
       /\ Failed("DrainHosts", j)
  /\ \A k \in 1..Len(calls) : calls[k].op # "EndMaintenance"

(* C30: a death-marked instance that GetInstanceByID does not find has its   *)
(* attempt return the lookup error before any per-instance call: no          *)
(* RemoveInstanceProtection, heartbeat, DrainHosts, CompleteLifecycleAction  *)
(* or EndMaintenance is issued for it and lastDeleteTimestamp is unchanged,  *)
(* although the pass's Mesos maintenance call included the instance.         *)
C30_LookupErrorFirst ==
  /\ (attempt.id # NoVictim /\ ~GetInstanceByID(asg, attempt.id)) =>
       /\ attempt.err = "lookup"
       /\ attempt.calls = <<>>
       /\ lastDeleteTimestamp = attempt.before
  /\ \A i \in Range(pass.attempted) :
       ~GetInstanceByID(asg, i) =>
         /\ \A k \in 1..Len(calls) : calls[k].id # i
         /\ \E k \in 1..Len(calls) :
              /\ calls[k].op = "SetMesosAgentsInMaintenance"
              /\ <<DNS(i), IP(i)>> \in calls[k].hosts

(* the attempt on i-B, which no monitored group lists, after a completion    *)
(* earlier in the same pass *)
C30_Witness ==
  /\ attempt.id = "i-B"
  /\ attempt.err = "lookup"
  /\ ~GetInstanceByID(asg, "i-B")
  /\ Issued("CompleteLifecycleAction", "i-A")
  /\ lastDeleteTimestamp # ZeroTime

(* instance i carries the death mark, is listed, in TERMINATING_WAIT and not *)
(* Mesos-protected *)
Stable(i) ==
  /\ i \in cloud.marked
  /\ GetInstanceByID(asg, i)
  /\ asg.lifecycle[i] = LifecycleStateTerminatingWait
  /\ IP(i) \notin mesos

(* C28: while ticks keep occurring and the clock keeps advancing, a          *)
(* death-marked instance that is listed, in TERMINATING_WAIT and not         *)
(* Mesos-protected does not stay so for ever with its DrainHosts succeeding  *)
(* and no CompleteLifecycleAction issued for it: neither the rate limit nor  *)
(* failing attempts on other marked instances postpone the call for ever.    *)
C28_EventuallyCompleted ==
  \A i \in InstanceIds :
    Stable(i) ~> (\/ Issued("CompleteLifecycleAction", i)
                  \/ ~Stable(i)
                  \/ Failed("DrainHosts", i))

(* CompleteLifecycleAction is issued for i-B in an attempt that an earlier   *)
(* completion had held back by the rate limit *)
C28_Witness ==
  /\ attempt.id = "i-B"
  /\ Stable("i-B")
  /\ attempt.before # ZeroTime
  /\ ~attempt.waited
  /\ Issued("CompleteLifecycleAction", "i-B")
  /\ Len(completions) >= 1
  /\ completions[1].id = "i-A"

(* the attempt on i ran outside the delay since the last completion *)
PastRateLimit(i) ==
  /\ attempt.id = i
  /\ ~shouldWaitForNextDestroy(Since(attempt.at, attempt.before), conf.DelayDeleteSeconds)

(* C31: a failing preparatory call stops nothing.  After a failed            *)
(* SetMesosAgentsInMaintenance the pass still attempts every marked instance; *)
(* an attempt whose RemoveInstanceProtection or                              *)
(* RecordLifecycleActionHeartbeat failed returns no error, still drains when *)
(* the rate limit lets it and still issues CompleteLifecycleAction when the  *)
(* drain succeeded and the instance is unprotected and in TERMINATING_WAIT.  *)
C31_PreparationFailuresPass ==
  /\ (Failed("SetMesosAgentsInMaintenance", NoVictim) /\ pc = "idle") =>
       /\ pass.instances # <<>>
       /\ pass.attempted = pass.instances
  /\ \A i \in InstanceIds :
       (\/ Failed("RemoveInstanceProtection", i)
        \/ Failed("RecordLifecycleActionHeartbeat", i)) =>
         /\ attempt.id = i => \/ attempt.err = "none"
                               \/ Failed("DrainHosts", i)
                               \/ Failed("CompleteLifecycleAction", i)
         /\ (PastRateLimit(i) /\ conf.AuroraURL) => Issued("DrainHosts", i)
         /\ (/\ PastRateLimit(i)
             /\ ~Failed("DrainHosts", i)
             /\ CanBeKilled(mesos, IP(i))
             /\ CanCompleteLifecycle(asg.lifecycle[i])) =>
               Issued("CompleteLifecycleAction", i)

(* CompleteLifecycleAction is issued for i-A in a pass whose                 *)
(* SetMesosAgentsInMaintenance failed, in an attempt whose                   *)
(* RemoveInstanceProtection and RecordLifecycleActionHeartbeat both failed   *)
C31_Witness ==
  /\ attempt.id = "i-A"
  /\ Failed("SetMesosAgentsInMaintenance", NoVictim)
  /\ Failed("RemoveInstanceProtection", "i-A")
  /\ Failed("RecordLifecycleActionHeartbeat", "i-A")
  /\ Issued("DrainHosts", "i-A")
  /\ Issued("CompleteLifecycleAction", "i-A")

====
